---- MODULE Spec2Model ----
(***************************************************************************)
(* The crawl scheduler of src/index.tsx: the session store (localStorage), *)
(* the in-memory session, the processQueue loops, the pause countdown and  *)
(* the handlers of the page that start, resume and restart a crawl.        *)
(*                                                                         *)
(* JavaScript runs every handler and every continuation of an await to     *)
(* completion, so one action is one such run: from the event (or from the  *)
(* point where an awaited promise settles) up to the next await or return. *)
(***************************************************************************)
EXTENDS Integers, Sequences, FiniteSets, TLC

\* ------------------------------------------------------------ constants
BATCH_SIZE == 10

\* ------------------------------------------------------------ bounds
\* paths of the crawled host that pages link to
NPaths == 2
\* processQueue invocations that may be suspended at an await together
MaxLoops == 2
\* readings of Date.now() that differ (one per completed sleep)
MaxClock == 2
\* the largest page budget typed into the form
MaxBudget == 12
\* fetchAndParseSitemap calls in flight together
MaxSitemapLoads == 1

\* ------------------------------------------------------------ strings
\* A string is [h, p, c]. h is the hostname new URL(s) reports ("g" for
\* help.gohighlevel.com, the host of SITEMAP_URL, "y" for any other), or "rel"
\* for text that only parses against a base, "bad" for text that never
\* parses, "key" for a storage key used as text. p tells strings of one
\* host apart. c is TRUE when the string is spelled as URL.href spells it
\* ("https://help.gohighlevel.com/") and FALSE for another spelling of the
\* same URL ("https://help.gohighlevel.com").
Hosts == {"g", "y"}

Str(h, p, c) == [h |-> h, p |-> p, c |-> c]

SITEMAP_URL == Str("g", 0, TRUE)

\* new URL(s) succeeds
IsUrl(s) == s.h \in Hosts

\* new URL(s).hostname
Hostname(s) == s.h

\* new URL(link, base) succeeds
CanResolve(link, base) == IsUrl(base) /\ link.h \in Hosts \cup {"rel"}

\* new URL(link, base).href
Resolve(link, base) ==
    IF link.h \in Hosts THEN Str(link.h, link.p, TRUE)
    ELSE Str(base.h, link.p, TRUE)

\* getSessionKey: the hostname of a URL, else the text with every
\* non-alphanumeric character replaced (spellings that differ only in such
\* characters get one key)
getSessionKey(url) ==
    IF IsUrl(url) THEN [h |-> Hostname(url), p |-> 0]
    ELSE [h |-> url.h, p |-> url.p]

\* the key as the text handed on by startBatchCrawl
KeyText(k) == Str("key", k.p, FALSE)

Keys ==
    {[h |-> "g", p |-> 0], [h |-> "y", p |-> 0], [h |-> "key", p |-> 0],
     [h |-> "rel", p |-> 0], [h |-> "rel", p |-> 1]}

\* ------------------------------------------------------------ sessions
\* currentSession and the values of the store are << >> (null) or <<s>>.
NoSession == << >>

InSeq(x, q) == \E i \in 1..Len(q) : q[i] = x

NewSession(url, maxPages, queue) ==
    [startUrl |-> url, maxPages |-> maxPages, queue |-> queue,
     visited |-> << >>, batchCounter |-> 0, pagesCrawled |-> 0]

\* saveSession / loadSession / clearSession on the store
saveSession(ls, s) == [ls EXCEPT ![getSessionKey(s.startUrl)] = <<s>>]

loadSession(ls, url) == ls[getSessionKey(url)]

clearSession(ls, url) == [ls EXCEPT ![getSessionKey(url)] = NoSession]


\* ------------------------------------------------------------ state
VARIABLES
    store,              \* localStorage, the crawlSession_* keys
    prevSitemap,        \* localStorage, previousSitemapData
    history,            \* history, the list in memory
    crawlHistory,       \* localStorage crawlHistory, as saveHistory wrote it last
    currentSession,     \* currentSession
    isLoading,          \* isLoading
    startBtnDisabled,   \* startSitemapCrawlBtn.disabled
    countdown,          \* TRUE while the interval of startCountdown runs
    loops,              \* the processQueue invocations suspended at an await
    clock,              \* Date.now()
    urlInput,           \* urlInput.value
    maxPagesInput,      \* parseInt(maxPagesInput.value, 10)
    modalHidden,        \* resumeModal.hidden
    sitemapNewUrls,     \* sitemapNewUrls
    sitemapUpdatedUrls, \* sitemapUpdatedUrls
    allSitemapUrls,     \* allSitemapUrls
    sitemapLoads        \* handleLoadSitemap calls awaiting fetchAndParseSitemap

vars == <<store, prevSitemap, history, crawlHistory, currentSession, isLoading, startBtnDisabled,
          countdown, loops, clock, urlInput, maxPagesInput, modalHidden,
          sitemapNewUrls, sitemapUpdatedUrls, allSitemapUrls, sitemapLoads>>

\* A suspended processQueue: where it waits, its currentUrl and its
\* startHostname ("null" when isSitemapCrawl).
Idle == [pc |-> "none", url |-> SITEMAP_URL, host |-> "null"]

LoopIds == 1..MaxLoops

FreeLoops == {i \in LoopIds : loops[i].pc = "none"}

FreeLoop == CHOOSE i \in FreeLoops : \A j \in FreeLoops : i <= j

\* The part of the state the scheduler's functions read and write.
Sched ==
    [store |-> store, cur |-> currentSession, loading |-> isLoading,
     startDis |-> startBtnDisabled, countdown |-> countdown, loops |-> loops]

Becomes(st) ==
    /\ store' = st.store
    /\ currentSession' = st.cur
    /\ isLoading' = st.loading
    /\ startBtnDisabled' = st.startDis
    /\ countdown' = st.countdown
    /\ loops' = st.loops

\* ------------------------------------------------------------ scheduler
setLoading(st, loading) ==
    [st EXCEPT !.loading = loading,
               !.startDis = loading \/ ~(Len(sitemapNewUrls) > 0 \/ Len(sitemapUpdatedUrls) > 0)]

\* startCountdown: any running interval is cleared, one is started
startCountdown(st) == [st EXCEPT !.countdown = TRUE]

\* The while loop of processQueue on session s, from its condition up to the
\* pause, the next Fetch or the end of the loop; a popped URL found in visited
\* is dropped and the loop goes round again.
RECURSIVE whileLoop(_)
whileLoop(s) ==
    IF Len(s.queue) > 0 /\ s.pagesCrawled < s.maxPages
    THEN IF s.batchCounter >= BATCH_SIZE
         THEN [kind |-> "pause", s |-> [s EXCEPT !.batchCounter = 0], url |-> SITEMAP_URL]
         ELSE LET currentUrl == Head(s.queue)
                  popped == [s EXCEPT !.queue = Tail(s.queue)]
              IN  IF InSeq(currentUrl, s.visited)
                  THEN whileLoop(popped)
                  ELSE [kind |-> "fetch", s |-> popped, url |-> currentUrl]
    ELSE [kind |-> "finish", s |-> s, url |-> SITEMAP_URL]

\* Loop i runs from the loop condition to its next await or return. With
\* currentSession null the condition throws a TypeError nobody catches.
runLoop(st, i, host) ==
    IF st.cur = NoSession THEN [st EXCEPT !.loops[i] = Idle]
    ELSE LET r == whileLoop(st.cur[1]) IN
         CASE r.kind = "pause" ->
                startCountdown([st EXCEPT !.cur = <<r.s>>,
                                          !.store = saveSession(st.store, r.s),
                                          !.loops[i] = Idle])
           [] r.kind = "fetch" ->
                [st EXCEPT !.cur = <<r.s>>,
                           !.loops[i] = [pc |-> "fetch", url |-> r.url, host |-> host]]
           [] OTHER ->
                setLoading([st EXCEPT !.store = clearSession(st.store, r.s.startUrl),
                                      !.cur = NoSession,
                                      !.loops[i] = Idle], FALSE)

\* processQueue() called afresh, as loop i. new URL(startUrl) throws for a
\* start URL that does not parse, after setLoading(true).
processQueue(st, i) ==
    IF st.cur = NoSession THEN st
    ELSE LET s == st.cur[1]
             st1 == setLoading(st, TRUE)
         IN  IF s.startUrl = SITEMAP_URL THEN runLoop(st1, i, "null")
             ELSE IF ~IsUrl(s.startUrl) THEN st1
             ELSE runLoop(st1, i, Hostname(s.startUrl))

\* startCrawlSession with a resume that starts a new rate-limit window
startCrawlSession_newWindow(st, url, maxPages, fromScratch) ==
    LET cleared == IF fromScratch THEN clearSession(st.store, url) ELSE st.store
        loaded == loadSession(cleared, url)
    IN  IF loaded = NoSession
        THEN NewSession(url, maxPages, <<url>>)
        ELSE [loaded[1] EXCEPT !.maxPages = maxPages, !.batchCounter = 0]

\* the session startCrawl saves and hands to processQueue
startCrawlSession(st, url, maxPages, fromScratch) ==
    LET cleared == IF fromScratch THEN clearSession(st.store, url) ELSE st.store
        loaded == loadSession(cleared, url)
    IN  IF loaded = NoSession
        THEN NewSession(url, maxPages, <<url>>)
        ELSE [loaded[1] EXCEPT !.maxPages = maxPages]

startCrawl(st, i, url, maxPages, fromScratch) ==
    LET cleared == IF fromScratch THEN clearSession(st.store, url) ELSE st.store
        s == startCrawlSession(st, url, maxPages, fromScratch)
    IN  processQueue([st EXCEPT !.store = saveSession(cleared, s), !.cur = <<s>>], i)

startBatchCrawl(st, i, urls) ==
    LET sessionKeyForBatch == KeyText(getSessionKey(SITEMAP_URL))
        cleared == clearSession(st.store, sessionKeyForBatch)
        s == NewSession(SITEMAP_URL, Len(urls), urls)
    IN  processQueue([st EXCEPT !.store = saveSession(cleared, s), !.cur = <<s>>], i)

\* the forEach over the links of a fetched page
RECURSIVE expandLinks(_, _, _, _)
expandLinks(s, links, currentUrl, startHostname) ==
    IF links = << >> THEN s
    ELSE LET link == Head(links)
             absoluteUrl == Resolve(link, currentUrl)
             admit == /\ CanResolve(link, currentUrl)
                      /\ Hostname(absoluteUrl) = startHostname
                      /\ ~InSeq(absoluteUrl, s.visited)
                      /\ ~InSeq(absoluteUrl, s.queue)
             s2 == IF admit THEN [s EXCEPT !.queue = Append(s.queue, absoluteUrl)] ELSE s
         IN  expandLinks(s2, Tail(links), currentUrl, startHostname)

\* the try block after the Fetch of loop l has returned a page with links
onFetched(s, l, links) ==
    LET counted == [s EXCEPT !.visited = Append(s.visited, l.url),
                             !.pagesCrawled = s.pagesCrawled + 1,
                             !.batchCounter = s.batchCounter + 1]
    IN  IF l.host # "null" THEN expandLinks(counted, links, l.url, l.host) ELSE counted

\* the catch block after the Fetch of loop l has failed
onFailed(s, l) == [s EXCEPT !.visited = Append(s.visited, l.url)]


\* ------------------------------------------------------------ sitemap
\* oldEntriesMap.get(url): a Map built from pairs keeps the last pair of a key
RECURSIVE MapGet(_, _)
MapGet(entries, url) ==
    IF entries = << >> THEN 0
    ELSE LET last == entries[Len(entries)] IN
         IF last.url = url THEN last.lastmod
         ELSE MapGet(SubSeq(entries, 1, Len(entries) - 1), url)

MapHas(entries, url) == \E i \in 1..Len(entries) : entries[i].url = url

Urls(entries) == [i \in 1..Len(entries) |-> entries[i].url]

\* compareSitemaps that takes an entry as updated only when its lastmod is later
compareSitemaps_laterOnly(newEntries, oldEntries) ==
    LET isNew(e) == ~MapHas(oldEntries, e.url)
        isUpdated(e) == MapHas(oldEntries, e.url) /\ MapGet(oldEntries, e.url) < e.lastmod
    IN  [newUrls |-> Urls(SelectSeq(newEntries, isNew)),
         updatedUrls |-> Urls(SelectSeq(newEntries, isUpdated))]

compareSitemaps(newEntries, oldEntries) ==
    LET isNew(e) == ~MapHas(oldEntries, e.url)
        isUpdated(e) == MapHas(oldEntries, e.url) /\ MapGet(oldEntries, e.url) # e.lastmod
    IN  [newUrls |-> Urls(SelectSeq(newEntries, isNew)),
         updatedUrls |-> Urls(SelectSeq(newEntries, isUpdated))]

\* sitemapQueue that puts the added and changed URLs first whatever the checkbox
sitemapQueue_alwaysFirst(shouldPrioritize) ==
    LET urlsToPrioritize == sitemapNewUrls \o sitemapUpdatedUrls
        crawled(url) == \E i \in 1..Len(history) : history[i].url = url
        never(url) == ~crawled(url) /\ ~InSeq(url, urlsToPrioritize)
        neverCrawledUrls == SelectSeq(allSitemapUrls, never)
    IN  urlsToPrioritize \o neverCrawledUrls

\* the queue handleStartSitemapCrawl builds
sitemapQueue(shouldPrioritize) ==
    LET urlsToPrioritize == sitemapNewUrls \o sitemapUpdatedUrls
        crawled(url) == \E i \in 1..Len(history) : history[i].url = url
        never(url) == ~crawled(url) /\ ~InSeq(url, urlsToPrioritize)
        neverCrawledUrls == SelectSeq(allSitemapUrls, never)
    IN  IF shouldPrioritize THEN urlsToPrioritize \o neverCrawledUrls
        ELSE neverCrawledUrls \o urlsToPrioritize

\* ------------------------------------------------------------ inputs
\* what the user types as root URL: "https://help.gohighlevel.com" (not spelled
\* as its href) and the root of another site
RootInputs == {Str("g", 1, FALSE), Str("y", 1, TRUE)}

Budgets == {1, MaxBudget}

\* link.url values a fetched page may carry: pages of the crawled host and of
\* another host, the root in its other spelling, a relative reference, and
\* text new URL() rejects
LinkUrls ==
    {Str("g", p, TRUE) : p \in 1..NPaths}
        \cup {Str("y", 1, TRUE), Str("g", 1, FALSE), Str("rel", NPaths, FALSE), Str("bad", 0, FALSE)}

\* the links of one page: none, one, or two with the root's href first
PageLinks ==
    {<< >>} \cup {<<a>> : a \in LinkUrls} \cup {<<Str("g", 1, TRUE), a>> : a \in LinkUrls}

Entry(url, lastmod) == [url |-> url, lastmod |-> lastmod]

\* what fetchAndParseSitemap may return: a sitemap that lists one page twice
Snapshots ==
    { <<Entry(Str("g", 2, TRUE), 1), Entry(Str("g", 2, TRUE), 1)>> }

\* localStorage when the page is opened: empty, or holding the session of an
\* earlier visit that was closed in the middle of its first batch (the root
\* and eight more pages crawled, two pages queued, a budget of eleven).
EmptyStore == [k \in Keys |-> NoSession]

SavedSession ==
    [startUrl |-> Str("g", 1, FALSE), maxPages |-> BATCH_SIZE + 1,
     queue |-> <<Str("g", 1, TRUE), Str("g", 2, TRUE)>>,
     visited |-> <<Str("g", 1, FALSE)>> \o [i \in 1..(BATCH_SIZE - 2) |-> Str("g", 100 + i, TRUE)],
     batchCounter |-> BATCH_SIZE - 1, pagesCrawled |-> BATCH_SIZE - 1]

InitStores == {EmptyStore, saveSession(EmptyStore, SavedSession)}

\* ------------------------------------------------------------ actions
\* the state of the script when the page has loaded: init()
Loaded ==
    /\ currentSession = NoSession
    /\ isLoading = FALSE
    /\ countdown = FALSE
    /\ loops = [i \in LoopIds |-> Idle]
    /\ urlInput = Str("rel", 0, FALSE)
    /\ maxPagesInput = 1
    /\ modalHidden = TRUE
    /\ startBtnDisabled = TRUE
    /\ sitemapNewUrls = << >>
    /\ sitemapUpdatedUrls = << >>
    /\ allSitemapUrls = << >>
    /\ sitemapLoads = 0

Init ==
    /\ store \in InitStores
    /\ prevSitemap = << >>
    /\ history = << >>
    /\ crawlHistory = << >>
    /\ clock = 0
    /\ Loaded

UNCHANGED_Sitemap == UNCHANGED <<prevSitemap, sitemapNewUrls, sitemapUpdatedUrls, allSitemapUrls, sitemapLoads>>

UNCHANGED_Inputs == UNCHANGED <<urlInput, maxPagesInput>>

\* the test of the submit handler on the loaded session: offer to resume
Resumable(session) ==
    /\ session # NoSession
    /\ Len(session[1].queue) > 0
    /\ session[1].pagesCrawled < session[1].maxPages

\* crawlForm submit with url and maxPages typed in (the fields are disabled
\* while isLoading, and the handler returns when isLoading)
Submit(url, maxPages) ==
    /\ ~isLoading
    /\ FreeLoops # {}
    /\ urlInput' = url
    /\ maxPagesInput' = maxPages
    /\ IF Resumable(loadSession(store, url))
       THEN /\ modalHidden' = FALSE
            /\ UNCHANGED <<store, currentSession, isLoading, startBtnDisabled, countdown, loops>>
       ELSE /\ Becomes(startCrawl(Sched, FreeLoop, url, maxPages, TRUE))
            /\ UNCHANGED modalHidden
    /\ UNCHANGED <<history, crawlHistory, clock>>
    /\ UNCHANGED_Sitemap

\* resumeCrawlBtn click
ResumeClick ==
    /\ ~modalHidden
    /\ FreeLoops # {}
    /\ modalHidden' = TRUE
    /\ Becomes(startCrawl(Sched, FreeLoop, urlInput, maxPagesInput, FALSE))
    /\ UNCHANGED <<history, crawlHistory, clock>>
    /\ UNCHANGED_Inputs
    /\ UNCHANGED_Sitemap

\* restartCrawlBtn click
RestartClick ==
    /\ ~modalHidden
    /\ FreeLoops # {}
    /\ modalHidden' = TRUE
    /\ Becomes(startCrawl(Sched, FreeLoop, urlInput, maxPagesInput, TRUE))
    /\ UNCHANGED <<history, crawlHistory, clock>>
    /\ UNCHANGED_Inputs
    /\ UNCHANGED_Sitemap

\* pushResult keeping one result per URL: the new one replaces an older one
pushResult_latestPerUrl(h, id, url) ==
    Append(SelectSeq(h, LAMBDA item : item.url # url), [id |-> id, url |-> url])

\* history.push(newResult) with id = Date.now()
pushResult(h, id, url) == Append(h, [id |-> id, url |-> url])

\* the Fetch of loop i returns a page: the rest of the try block
FetchOk(i, links) ==
    /\ loops[i].pc = "fetch"
    /\ clock < MaxClock
    /\ clock' = clock + 1
    /\ history' = pushResult(history, clock', loops[i].url)
    /\ crawlHistory' = history'
    /\ IF currentSession = NoSession
       THEN \* TypeError in the try block, and again in the catch block
            /\ loops' = [loops EXCEPT ![i] = Idle]
            /\ UNCHANGED <<store, currentSession>>
       ELSE LET s == onFetched(currentSession[1], loops[i], links) IN
            /\ currentSession' = <<s>>
            /\ store' = saveSession(store, s)
            /\ loops' = [loops EXCEPT ![i].pc = "delay"]
    /\ UNCHANGED <<isLoading, startBtnDisabled, countdown, modalHidden>>
    /\ UNCHANGED_Inputs
    /\ UNCHANGED_Sitemap

\* the Fetch of loop i fails: the catch block
FetchFail(i) ==
    /\ loops[i].pc = "fetch"
    /\ clock < MaxClock
    /\ clock' = clock + 1
    /\ IF currentSession = NoSession
       THEN /\ loops' = [loops EXCEPT ![i] = Idle]
            /\ UNCHANGED <<store, currentSession>>
       ELSE LET s == onFailed(currentSession[1], loops[i]) IN
            /\ currentSession' = <<s>>
            /\ store' = saveSession(store, s)
            /\ loops' = [loops EXCEPT ![i].pc = "backoff"]
    /\ UNCHANGED <<history, crawlHistory, isLoading, startBtnDisabled, countdown, modalHidden>>
    /\ UNCHANGED_Inputs
    /\ UNCHANGED_Sitemap

\* the Fetch of loop i returns a page and localStorage refuses the write of
\* saveHistory (the history is past the quota): the result is in the list in
\* memory, the exception lands in the catch block of the loop, whose own write
\* of the much smaller session goes through
HistoryWriteFails(i) ==
    /\ loops[i].pc = "fetch"
    /\ clock < MaxClock
    /\ clock' = clock + 1
    /\ history' = pushResult(history, clock', loops[i].url)
    /\ IF currentSession = NoSession
       THEN /\ loops' = [loops EXCEPT ![i] = Idle]
            /\ UNCHANGED <<store, currentSession>>
       ELSE LET s == onFailed(currentSession[1], loops[i]) IN
            /\ currentSession' = <<s>>
            /\ store' = saveSession(store, s)
            /\ loops' = [loops EXCEPT ![i].pc = "backoff"]
    /\ UNCHANGED <<crawlHistory, isLoading, startBtnDisabled, countdown, modalHidden>>
    /\ UNCHANGED_Inputs
    /\ UNCHANGED_Sitemap

\* history.filter(item => item.id !== id)
deleteResult(h, id) == SelectSeq(h, LAMBDA item : item.id # id)

\* click on the delete button of the history entry with this id
DeleteClick(id) ==
    /\ \E k \in 1..Len(history) : history[k].id = id
    /\ id # 0
    /\ history' = deleteResult(history, id)
    /\ crawlHistory' = history'
    /\ UNCHANGED <<store, currentSession, isLoading, startBtnDisabled, countdown, loops,
                   clock, modalHidden>>
    /\ UNCHANGED_Inputs
    /\ UNCHANGED_Sitemap

\* the sleep of loop i ends: back to the loop condition
SleepDone(i) ==
    /\ loops[i].pc \in {"delay", "backoff"}
    /\ Becomes(runLoop(Sched, i, loops[i].host))
    /\ UNCHANGED <<history, crawlHistory, clock, modalHidden>>
    /\ UNCHANGED_Inputs
    /\ UNCHANGED_Sitemap

\* the last tick of the countdown: processQueue()
CountdownDone ==
    /\ countdown
    /\ FreeLoops # {}
    /\ Becomes(processQueue([Sched EXCEPT !.countdown = FALSE], FreeLoop))
    /\ UNCHANGED <<history, crawlHistory, clock, modalHidden>>
    /\ UNCHANGED_Inputs
    /\ UNCHANGED_Sitemap

\* loadSitemapBtn click: handleLoadSitemap up to its await
LoadSitemapClick ==
    /\ ~isLoading
    /\ sitemapLoads < MaxSitemapLoads
    /\ sitemapLoads' = sitemapLoads + 1
    /\ Becomes(setLoading(Sched, TRUE))
    /\ UNCHANGED <<history, crawlHistory, clock, modalHidden, prevSitemap, sitemapNewUrls,
                   sitemapUpdatedUrls, allSitemapUrls>>
    /\ UNCHANGED_Inputs

\* fetchAndParseSitemap returns newEntries
SitemapLoaded(newEntries) ==
    /\ sitemapLoads > 0
    /\ sitemapLoads' = sitemapLoads - 1
    /\ LET diff == compareSitemaps(newEntries, prevSitemap) IN
       /\ sitemapNewUrls' = diff.newUrls
       /\ sitemapUpdatedUrls' = diff.updatedUrls
       /\ startBtnDisabled' = ~(Len(diff.newUrls) > 0 \/ Len(diff.updatedUrls) > 0)
    /\ allSitemapUrls' = Urls(newEntries)
    /\ prevSitemap' = newEntries
    /\ isLoading' = FALSE
    /\ UNCHANGED <<store, currentSession, countdown, loops, history, crawlHistory, clock, modalHidden>>
    /\ UNCHANGED_Inputs

\* fetchAndParseSitemap throws
SitemapFailed ==
    /\ sitemapLoads > 0
    /\ sitemapLoads' = sitemapLoads - 1
    /\ Becomes(setLoading(Sched, FALSE))
    /\ UNCHANGED <<history, crawlHistory, clock, modalHidden, prevSitemap, sitemapNewUrls,
                   sitemapUpdatedUrls, allSitemapUrls>>
    /\ UNCHANGED_Inputs

\* startSitemapCrawlBtn click: handleStartSitemapCrawl
StartSitemapCrawlClick(shouldPrioritize) ==
    /\ ~startBtnDisabled
    /\ FreeLoops # {}
    /\ LET queue == sitemapQueue(shouldPrioritize) IN
       IF Len(queue) = 0
       THEN UNCHANGED <<store, currentSession, isLoading, startBtnDisabled, countdown, loops>>
       ELSE Becomes(startBatchCrawl(Sched, FreeLoop, queue))
    /\ UNCHANGED <<history, crawlHistory, clock, modalHidden>>
    /\ UNCHANGED_Inputs
    /\ UNCHANGED_Sitemap

\* the page is closed and opened again: localStorage stays, the script starts anew
Reload ==
    /\ currentSession' = NoSession
    /\ isLoading' = FALSE
    /\ countdown' = FALSE
    /\ loops' = [i \in LoopIds |-> Idle]
    /\ urlInput' = Str("rel", 0, FALSE)
    /\ maxPagesInput' = 1
    /\ modalHidden' = TRUE
    /\ startBtnDisabled' = TRUE
    /\ sitemapNewUrls' = << >>
    /\ sitemapUpdatedUrls' = << >>
    /\ allSitemapUrls' = << >>
    /\ sitemapLoads' = 0
    /\ history' = crawlHistory
    /\ UNCHANGED <<store, prevSitemap, crawlHistory, clock>>

Next ==
    \/ \E url \in RootInputs, maxPages \in Budgets : Submit(url, maxPages)
    \/ ResumeClick
    \/ RestartClick
    \/ \E i \in LoopIds, links \in PageLinks : FetchOk(i, links)
    \/ \E i \in LoopIds : FetchFail(i)
    \/ \E i \in LoopIds : SleepDone(i)
    \/ CountdownDone
    \/ LoadSitemapClick
    \/ \E newEntries \in Snapshots : SitemapLoaded(newEntries)
    \/ SitemapFailed
    \/ \E shouldPrioritize \in BOOLEAN : StartSitemapCrawlClick(shouldPrioritize)
    \/ Reload

Spec == Init /\ [][Next]_vars

\* The form, the modal, the loops, the history list and its storage, without
\* the sitemap panel: the root may be text that new URL() rejects, and the
\* write of the history may fail.
BadRoot == Str("rel", 1, FALSE)

StoreNext ==
    \/ \E url \in RootInputs \cup {BadRoot}, maxPages \in Budgets : Submit(url, maxPages)
    \/ ResumeClick
    \/ RestartClick
    \/ \E i \in LoopIds, links \in PageLinks : FetchOk(i, links)
    \/ \E i \in LoopIds : FetchFail(i)
    \/ \E i \in LoopIds : HistoryWriteFails(i)
    \/ \E i \in LoopIds : SleepDone(i)
    \/ CountdownDone
    \/ \E id \in 1..MaxClock : DeleteClick(id)
    \/ Reload

StoreSpec == Init /\ [][StoreNext]_vars

\* The sitemap panel and the batch crawl it starts, without the form: the
\* sitemap may be any list of up to two entries over two pages and two dates,
\* a page listed twice included.
SitemapEntries ==
    {Entry(Str("g", p, TRUE), lastmod) : p \in 1..NPaths, lastmod \in 1..2}

AnySnapshots ==
    {<< >>} \cup {<<a>> : a \in SitemapEntries}
            \cup {<<a, b>> : a \in SitemapEntries, b \in SitemapEntries}

SitemapNext ==
    \/ LoadSitemapClick
    \/ \E newEntries \in AnySnapshots : SitemapLoaded(newEntries)
    \/ SitemapFailed
    \/ \E shouldPrioritize \in BOOLEAN : StartSitemapCrawlClick(shouldPrioritize)
    \/ \E i \in LoopIds, links \in PageLinks : FetchOk(i, links)
    \/ \E i \in LoopIds : FetchFail(i)
    \/ \E i \in LoopIds : SleepDone(i)
    \/ Reload

SitemapSpec == Init /\ [][SitemapNext]_vars

\* The running page with every Fetch returning and every timer firing: the
\* Fetch of a loop resolves or rejects, a sleep ends, the countdown reaches its
\* last tick, the Fetch of the sitemap returns. The clicks are up to the user
\* and the page is not closed.
FetchReturns(i) ==
    \/ \E links \in PageLinks : FetchOk(i, links)
    \/ FetchFail(i)

SitemapReturns ==
    \/ \E newEntries \in Snapshots : SitemapLoaded(newEntries)
    \/ SitemapFailed

LiveNext ==
    \/ \E url \in RootInputs, maxPages \in Budgets : Submit(url, maxPages)
    \/ ResumeClick
    \/ RestartClick
    \/ \E i \in LoopIds : FetchReturns(i)
    \/ \E i \in LoopIds : SleepDone(i)
    \/ CountdownDone
    \/ LoadSitemapClick
    \/ SitemapReturns
    \/ \E shouldPrioritize \in BOOLEAN : StartSitemapCrawlClick(shouldPrioritize)

Fairness ==
    /\ \A i \in LoopIds : WF_vars(FetchReturns(i))
    /\ \A i \in LoopIds : WF_vars(SleepDone(i))
    /\ WF_vars(CountdownDone)
    /\ WF_vars(SitemapReturns)

LiveSpec == Init /\ [][LiveNext]_vars /\ Fairness


\* ------------------------------------------------------------ properties
NoRepeat(q) == \A i, j \in 1..Len(q) : i # j => q[i] # q[j]

IsSuffix(q, full) == \E k \in 0..Len(full) : q = SubSeq(full, k + 1, Len(full))

Fetching == {i \in LoopIds : loops[i].pc = "fetch"}

Running == {i \in LoopIds : loops[i].pc # "none"}

\* the loop step that ends a session: queue empty or budget used up
Terminal(s) == Len(s.queue) = 0 \/ s.pagesCrawled = s.maxPages

\* C1: no URL appears twice across queue and visited of the current session.
C1_Dedup ==
    currentSession # NoSession =>
        NoRepeat(currentSession[1].queue \o currentSession[1].visited)

\* C2: every step in which a loop handles the outcome of its Fetch, success or
\* failure, raises pagesCrawled by exactly 1.
C2_CountsEveryPop ==
    [][\A i \in LoopIds :
          (loops[i].pc = "fetch" /\ loops'[i].pc \in {"delay", "backoff"}) =>
              currentSession'[1].pagesCrawled = currentSession[1].pagesCrawled + 1]_vars

\* C3: in the first batch of a session (no pause yet, so batchCounter still
\* equals pagesCrawled), once BATCH_SIZE URLs have been popped and handled
\* (they are all in visited) no further URL is being fetched: the session
\* pauses first.
C3_PauseAfterTenPops ==
    (/\ currentSession # NoSession
     /\ currentSession[1].batchCounter = currentSession[1].pagesCrawled
     /\ Len(currentSession[1].visited) >= BATCH_SIZE)
        => Fetching = {}

\* C4: a step removes a record from the store only for a session whose queue
\* is empty or whose pagesCrawled equals maxPages, whichever of the stored
\* record, the session in memory or the session the handler starts is meant.
C4_RemovedOnlyWhenTerminal ==
    [][\A k \in Keys :
          (store[k] # NoSession /\ store'[k] = NoSession) =>
              \/ Terminal(store[k][1])
              \/ /\ currentSession # NoSession
                 /\ whileLoop(currentSession[1]).kind = "finish"
                 /\ Terminal(whileLoop(currentSession[1]).s)
              \/ \E fromScratch \in BOOLEAN :
                   LET s == startCrawlSession(Sched, urlInput', maxPagesInput', fromScratch)
                   IN  whileLoop(s).kind = "finish" /\ Terminal(s)]_vars

\* C5: pagesCrawled <= maxPages in the current session, and in the session a
\* click on resume would save and run with the budget now in the form.
C5_Budget ==
    /\ currentSession # NoSession =>
           currentSession[1].pagesCrawled <= currentSession[1].maxPages
    /\ ~modalHidden =>
           LET s == startCrawlSession(Sched, urlInput, maxPagesInput, FALSE)
           IN  s.pagesCrawled <= s.maxPages

\* C6: in a single-root session every queued URL has the hostname of startUrl.
C6_QueueSameHost ==
    (/\ currentSession # NoSession
     /\ currentSession[1].startUrl # SITEMAP_URL
     /\ IsUrl(currentSession[1].startUrl))
        => \A i \in 1..Len(currentSession[1].queue) :
               Hostname(currentSession[1].queue[i]) = Hostname(currentSession[1].startUrl)

\* C7: in a batch session the queue is a suffix of the seed list and every
\* URL of queue and visited is a seed.
C7_BatchFrontier ==
    (currentSession # NoSession /\ currentSession[1].startUrl = SITEMAP_URL) =>
        \E snapshot \in Snapshots :
            /\ IsSuffix(currentSession[1].queue, Urls(snapshot))
            /\ \A i \in 1..Len(currentSession[1].visited) :
                   InSeq(currentSession[1].visited[i], Urls(snapshot))

\* C8: when the Fetch of a loop fails, its URL is in visited afterwards, the
\* stored record equals the session and the loop waits to go on; and no URL
\* that is in visited is being fetched.
C8_FailureIsolated ==
    /\ [](\A i \in Fetching :
            currentSession # NoSession => ~InSeq(loops[i].url, currentSession[1].visited))
    /\ [][\A i \in LoopIds :
            FetchFail(i) =>
                /\ currentSession' # NoSession
                /\ InSeq(loops[i].url, currentSession'[1].visited)
                /\ loadSession(store', currentSession'[1].startUrl) = currentSession'
                /\ loops'[i].pc = "backoff"]_vars

\* C9: at most one processQueue loop is running or paused, so at most one
\* Fetch is in flight.
C9_SingleCrawl ==
    /\ Cardinality(Running) + (IF countdown THEN 1 ELSE 0) <= 1
    /\ Cardinality(Fetching) <= 1

\* C10: a click on resume with a session stored for the URL in the form
\* leaves the stored record as it was but for maxPages, which is the budget in
\* the form (the loop that starts may at once enter the pause, which sets
\* batchCounter to 0, or end the session, which removes the record); a click
\* on restart, and a submit that starts without asking, store the new session
\* with queue = [url] and leave the loop fetching url with nothing visited.
C10_ResumeEffect ==
    [][/\ (ResumeClick /\ loadSession(store, urlInput) # NoSession) =>
            LET k == getSessionKey(urlInput)
                expect == [store[k][1] EXCEPT !.maxPages = maxPagesInput]
                r == whileLoop(expect)
            IN  CASE r.kind = "fetch" ->
                        /\ store'[k] = <<expect>>
                        /\ currentSession' = <<[expect EXCEPT !.queue = r.s.queue]>>
                  [] r.kind = "pause" ->
                        /\ store'[k] = <<[expect EXCEPT !.batchCounter = 0]>>
                        /\ currentSession' = store'[k]
                  [] OTHER ->
                        /\ store'[k] = NoSession
                        /\ currentSession' = NoSession
       /\ (RestartClick \/ \E url \in RootInputs, maxPages \in Budgets :
                               Submit(url, maxPages) /\ ~Resumable(loadSession(store, url))) =>
            LET fresh == NewSession(urlInput', maxPagesInput', <<urlInput'>>) IN
            /\ store'[getSessionKey(urlInput')] = <<fresh>>
            /\ currentSession' = <<[fresh EXCEPT !.queue = << >>]>>
            /\ \E i \in LoopIds : loops[i].pc = "none" /\ loops'[i].pc = "fetch"
                                  /\ loops'[i].url = urlInput']_vars

\* The saved session has been resumed with the larger budget: the record holds
\* the new budget and the old queue, visited and counters, and the loop is
\* fetching the first queued URL.
C10_Witness ==
    /\ store[getSessionKey(SavedSession.startUrl)] = <<[SavedSession EXCEPT !.maxPages = MaxBudget]>>
    /\ currentSession = <<[SavedSession EXCEPT !.maxPages = MaxBudget,
                                              !.queue = Tail(SavedSession.queue)]>>
    /\ \E i \in LoopIds : loops[i].pc = "fetch" /\ loops[i].url = Head(SavedSession.queue)

\* A stored record that is a suspended session of the root url: kept under the
\* key of url, started from a root (not the batch session, whose startUrl is
\* SITEMAP_URL), with URLs queued and budget left.
SuspendedFor(url) ==
    LET rec == store[getSessionKey(url)] IN
    /\ rec # NoSession
    /\ rec[1].startUrl # SITEMAP_URL
    /\ Len(rec[1].queue) > 0
    /\ rec[1].pagesCrawled < rec[1].maxPages

\* C11: a submit offers the choice (opens the modal and starts nothing) exactly
\* when the store holds a suspended session of the submitted root; otherwise
\* it stores a fresh session with queue = [url] and starts it without asking.
C11_ResumeDecision ==
    [][\A url \in RootInputs, maxPages \in Budgets :
          Submit(url, maxPages) =>
              LET offered == ~modalHidden' /\ store' = store /\ currentSession' = currentSession
                  fresh == NewSession(url, maxPages, <<url>>)
              IN  /\ offered <=> SuspendedFor(url)
                  /\ ~offered => /\ store'[getSessionKey(url)] = <<fresh>>
                                 /\ currentSession' = <<[fresh EXCEPT !.queue = << >>]>>]_vars

\* C12: the record stored under the key of the session in memory equals that
\* session, after every step.
C12_WriteThrough ==
    currentSession # NoSession =>
        loadSession(store, currentSession[1].startUrl) = currentSession

\* C13: while a loop is suspended, a resume from the store gives the state in
\* memory: during a Fetch the stored record, run from the loop condition,
\* pops the URL in flight and is then the session in memory; during a delay,
\* a backoff or the pause the stored record is the session in memory.
C13_CrashRecovery ==
    (currentSession # NoSession /\ (Running # {} \/ countdown)) =>
        LET rec == loadSession(store, currentSession[1].startUrl) IN
        /\ rec # NoSession
        /\ \A i \in Running :
              IF loops[i].pc = "fetch"
              THEN /\ whileLoop(rec[1]).kind = "fetch"
                   /\ whileLoop(rec[1]).url = loops[i].url
                   /\ whileLoop(rec[1]).s = currentSession[1]
                   /\ ~InSeq(loops[i].url, rec[1].visited)
              ELSE rec = currentSession
        /\ countdown => rec = currentSession

\* the pause is due for session s
PauseDue(s) ==
    /\ s.batchCounter >= BATCH_SIZE
    /\ Len(s.queue) > 0
    /\ s.pagesCrawled < s.maxPages

\* C16: the countdown starts only for a session with batchCounter at
\* BATCH_SIZE, URLs queued and budget left (the session in memory, or the one
\* a start handler loads); while it runs no loop is active; and when it ends
\* processQueue runs once on the session in memory, which goes on to the
\* Fetch of the next queued URL.
C16_PauseResume ==
    /\ [](countdown => (Running = {} /\ currentSession # NoSession))
    /\ [][/\ (~countdown /\ countdown') =>
                \/ currentSession # NoSession /\ PauseDue(currentSession[1])
                \/ \E fromScratch \in BOOLEAN :
                      PauseDue(startCrawlSession(Sched, urlInput', maxPagesInput', fromScratch))
          /\ (countdown /\ CountdownDone) =>
                /\ ~countdown'
                /\ Cardinality(Fetching') = 1
                /\ \A i \in Fetching' :
                      /\ loops'[i].url = Head(currentSession[1].queue)
                      /\ currentSession' = <<[currentSession[1] EXCEPT !.queue = Tail(@)]>>]_vars

\* C17: batchCounter stays within 0..BATCH_SIZE, and a step that keeps the
\* session (same startUrl, visited only grown) lowers batchCounter only by
\* entering the pause, which sets it to 0.
C17_BatchCounter ==
    /\ [](currentSession # NoSession =>
            currentSession[1].batchCounter \in 0..BATCH_SIZE)
    /\ [][(/\ currentSession # NoSession
           /\ currentSession' # NoSession
           /\ currentSession'[1].startUrl = currentSession[1].startUrl
           /\ Len(currentSession'[1].visited) >= Len(currentSession[1].visited)
           /\ currentSession'[1].batchCounter < currentSession[1].batchCounter)
              => (countdown' /\ ~countdown /\ currentSession'[1].batchCounter = 0)]_vars

\* C14: when the write of the history fails while loop i handles a page, the
\* loop stops: it does not wait to go on with the next queued URL, as it does
\* for a page that failed.
C14_PersistenceFailureStops ==
    [][\A i \in LoopIds :
          HistoryWriteFails(i) => loops'[i].pc = "none"]_vars

\* C15: isLoading is set only while a loop, the countdown or a sitemap load is
\* active; and a loop ends only by entering the pause or finishing the session
\* in memory (or with the page being closed), never with an exception, which
\* is how it ends when currentSession is null.
C15_NoUncaught ==
    /\ [](isLoading => (Running # {} \/ countdown \/ sitemapLoads > 0))
    /\ [][\A i \in LoopIds :
            (loops[i].pc # "none" /\ loops'[i].pc = "none") =>
                (currentSession # NoSession \/ Reload)]_vars

IsPrefix(q, full) == Len(q) <= Len(full) /\ q = SubSeq(full, 1, Len(q))

\* C19: but for a click on delete, a step only appends to the stored history
\* and leaves every stored entry as it is; the list in memory is only appended
\* to, by one result of a Fetch that returned, or read again from storage when
\* the page is opened; starting, resuming, restarting, pausing and finishing a
\* session, and a failed Fetch, change neither.
C19_HistoryAppendOnly ==
    [][(\E id \in 1..MaxClock : DeleteClick(id))
       \/ /\ IsPrefix(crawlHistory, crawlHistory')
          /\ \/ history' = history
             \/ /\ \E i \in LoopIds : loops[i].pc = "fetch" /\ loops'[i].pc # "fetch"
                /\ Len(history') = Len(history) + 1
                /\ IsPrefix(history, history')
             \/ Reload /\ history' = crawlHistory
          /\ (\/ \E url \in RootInputs \cup {BadRoot}, maxPages \in Budgets : Submit(url, maxPages)
              \/ ResumeClick \/ RestartClick \/ CountdownDone
              \/ \E i \in LoopIds : SleepDone(i) \/ FetchFail(i))
                => (history' = history /\ crawlHistory' = crawlHistory)]_vars

\* Two results are stored, the second after a crawl of the same root was
\* started again, and the first is still the first entry of the list.
C19_Witness ==
    /\ Len(crawlHistory) = 2
    /\ crawlHistory = history
    /\ crawlHistory[1].url = crawlHistory[2].url
    /\ crawlHistory[1].id = 1

\* the k-th smallest index of the set I, and the urls of the entries at the
\* indices I, in the order of the list
Nth(I, k) == CHOOSE i \in I : Cardinality({j \in I : j < i}) = k - 1

UrlsAt(entries, I) == [k \in 1..Cardinality(I) |-> entries[Nth(I, k)].url]

\* the lastmod the mapping built from old holds for url: that of the last
\* entry with this url
OldLastmod(old, url) ==
    old[CHOOSE k \in 1..Len(old) :
            old[k].url = url /\ \A j \in (k + 1)..Len(old) : old[j].url # url].lastmod

\* C18: when a sitemap has been loaded, sitemapNewUrls holds the urls of the
\* new entries whose url no old entry has, and sitemapUpdatedUrls the urls of
\* the new entries whose url the old mapping has with another lastmod, each in
\* the order of the new entries; no url is in both lists.
C18_SitemapDiff ==
    [][(\E newEntries \in AnySnapshots : SitemapLoaded(newEntries)) =>
          LET new == prevSitemap'
              old == prevSitemap
              present(url) == \E k \in 1..Len(old) : old[k].url = url
              Added == {i \in 1..Len(new) : ~present(new[i].url)}
              Changed == {i \in 1..Len(new) : /\ present(new[i].url)
                                              /\ OldLastmod(old, new[i].url) # new[i].lastmod}
          IN  /\ sitemapNewUrls' = UrlsAt(new, Added)
              /\ sitemapUpdatedUrls' = UrlsAt(new, Changed)
              /\ \A i \in 1..Len(sitemapNewUrls'), j \in 1..Len(sitemapUpdatedUrls') :
                    sitemapNewUrls'[i] # sitemapUpdatedUrls'[j]]_vars

\* The example of the spec: the old sitemap had page 1 at date 1, the new one
\* has page 1 at date 2 and page 2; page 2 is added and page 1 changed.
C18_Witness ==
    /\ prevSitemap = <<Entry(Str("g", 1, TRUE), 2), Entry(Str("g", 2, TRUE), 1)>>
    /\ sitemapNewUrls = <<Str("g", 2, TRUE)>>
    /\ sitemapUpdatedUrls = <<Str("g", 1, TRUE)>>

\* C20: a click on the sitemap-crawl button stores a batch session whose queue
\* is added ++ changed followed by the never-crawled URLs when prioritising,
\* and the never-crawled URLs followed by added ++ changed otherwise (the
\* never-crawled being the snapshot URLs neither in history nor added or
\* changed, in snapshot order); with nothing to queue it changes nothing.
C20_SeedOrder ==
    [][\A shouldPrioritize \in BOOLEAN :
          StartSitemapCrawlClick(shouldPrioritize) =>
              LET first == sitemapNewUrls \o sitemapUpdatedUrls
                  Never == {i \in 1..Len(allSitemapUrls) :
                               /\ \A k \in 1..Len(history) : history[k].url # allSitemapUrls[i]
                               /\ \A k \in 1..Len(first) : first[k] # allSitemapUrls[i]}
                  rest == [k \in 1..Cardinality(Never) |-> allSitemapUrls[Nth(Never, k)]]
                  seeds == IF shouldPrioritize THEN first \o rest ELSE rest \o first
              IN  IF seeds = << >>
                  THEN UNCHANGED <<store, currentSession, loops, isLoading>>
                  ELSE store'[getSessionKey(SITEMAP_URL)] =
                           <<NewSession(SITEMAP_URL, Len(seeds), seeds)>>]_vars

\* Page 2 is added and page 1 is unchanged and never crawled; the batch
\* session was started without prioritising, with page 1 before page 2.
C20_Witness ==
    /\ sitemapNewUrls = <<Str("g", 2, TRUE)>>
    /\ sitemapUpdatedUrls = << >>
    /\ allSitemapUrls = <<Str("g", 1, TRUE), Str("g", 2, TRUE)>>
    /\ store[getSessionKey(SITEMAP_URL)] =
           <<NewSession(SITEMAP_URL, 2, <<Str("g", 1, TRUE), Str("g", 2, TRUE)>>)>>
    /\ Fetching # {}

\* the step keeps the session in memory: same startUrl, visited only grown
SameSession ==
    /\ currentSession # NoSession
    /\ currentSession' # NoSession
    /\ currentSession'[1].startUrl = currentSession[1].startUrl
    /\ IsPrefix(currentSession[1].visited, currentSession'[1].visited)

\* C22: a session starts with pagesCrawled = 0 and nothing visited, and every
\* step that keeps the session, a click on delete apart, raises pagesCrawled
\* by the number of results it appends to history and the size of visited by
\* that number plus one for a Fetch that failed; the URL of an appended result
\* is in visited.
C22_CounterCoupling ==
    [][(SameSession /\ ~(\E id \in 1..MaxClock : DeleteClick(id))) =>
          LET s == currentSession[1]
              s2 == currentSession'[1]
              failed == IF \E i \in LoopIds : FetchFail(i) THEN 1 ELSE 0
          IN  /\ s2.pagesCrawled - s.pagesCrawled = Len(history') - Len(history)
              /\ Len(s2.visited) - Len(s.visited) = (s2.pagesCrawled - s.pagesCrawled) + failed
              /\ Len(history') > Len(history) =>
                     InSeq(history'[Len(history')].url, s2.visited)]_vars

\* the bounds of the model hold a step back: a Fetch in flight with the clock
\* at its last reading, or the last tick of the countdown with no loop free
Capped ==
    \/ clock = MaxClock /\ Fetching # {}
    \/ countdown /\ FreeLoops = {}

\* the session kept under key k has reached Finished
Finished(k) ==
    /\ currentSession = NoSession
    /\ ~isLoading
    /\ store[k] = NoSession

\* C21: with every Fetch returning and every timer firing, a session in
\* memory leads to Finished: its record deleted, currentSession null and
\* isLoading false (or to a step the bounds of the model hold back).
C21_Terminates ==
    \A k \in Keys :
        (currentSession # NoSession /\ getSessionKey(currentSession[1].startUrl) = k)
            ~> (Finished(k) \/ Capped)

====
